---- MODULE Spec2Model ----
(***************************************************************************)
(* A model of gaphas' Tree (src/gaphas/tree.py): the ordered forest that   *)
(* keeps a flat render order (_nodes) next to the children and parent      *)
(* maps, and of the record / play back protocol of src/avoid-demo.py.      *)
(***************************************************************************)
EXTENDS Integers, Sequences, FiniteSets, TLC

\* ------------------------------------------------------------------ bounds
\* nodes of the tree-only specifications
MaxNodes == 4

\* nodes of the record / play back specification
MaxUndoNodes == 2

\* longest undo list recorded
MaxUndo == 2
MaxQueryNodes == 3
MaxSortNodes == 2

Nodes == 1..MaxNodes

UndoNodes == 1..MaxUndoNodes
QueryNodes == 1..MaxQueryNodes
SortNodes == 1..MaxSortNodes

\* Python's None: the root of the tree, and a falsy value in "if parent:"
None == 0

\* Depth after which a runaway Python recursion ends in a RuntimeError; an
\* acyclic parent chain is never longer than the number of nodes.
RecursionLimit == MaxNodes + 2

VARIABLES
  nodes,      \* Tree._nodes: the render order
  children,   \* Tree._children: node or None -> list of children
  parents,    \* Tree._parents: node -> parent
  call,       \* the most recent call and how it ended
  subscribers,\* state.subscribers
  undo_list,  \* avoid-demo.py's global undo list
  replayed,   \* the events the latest Play back handed to saveapply, in order
  mark,       \* the tree when recording started, while only recorded calls followed
  before,     \* the tree before the latest Play back, while nothing else followed
  ret,        \* what the most recent call returned, as a sequence
  keys,       \* the _tree_sorter_key attribute of the nodes that have one
  fresh,      \* reindex() was called and the forest was not changed since
  args,       \* the arguments of the most recent sort call
  walk        \* a get_ancestors generator being enumerated: its local parent

treeVars == <<nodes, children, parents>>
undoVars == <<subscribers, undo_list, replayed, mark, before>>
sortVars == <<keys, fresh, args>>
queryVars == <<ret, sortVars, walk>>
vars == <<nodes, children, parents, call, subscribers, undo_list, replayed, mark,
          before, ret, keys, fresh, args, walk>>

\* The three containers of one Tree object, as a record.
tree == [nodes |-> nodes, children |-> children, parents |-> parents]

\* ------------------------------------------------------ Python list methods
Elems(s) == {s[i] : i \in 1..Len(s)}

\* list.index(x), 1-based; 0 stands for the ValueError of a missing element
ListIndex(s, x) ==
  IF x \in Elems(s)
  THEN CHOOSE i \in 1..Len(s) : s[i] = x /\ \A j \in 1..(i - 1) : s[j] # x
  ELSE 0

\* list.remove(x): drops the first occurrence
ListRemove(s, x) ==
  LET i == ListIndex(s, x)
  IN  SubSeq(s, 1, i - 1) \o SubSeq(s, i + 1, Len(s))

\* list.insert(i, x), with i the 1-based position x is put in front of
ListInsert(s, i, x) ==
  SubSeq(s, 1, i - 1) \o <<x>> \o SubSeq(s, i, Len(s))

\* dict with key k set to v (a new key extends the domain)
DictSet(d, k, v) ==
  [x \in (DOMAIN d) \cup {k} |-> IF x = k THEN v ELSE d[x]]

\* a del statement that was left out
DictDel_keep(d, k) == d

\* dict without key k
DictDel(d, k) ==
  [x \in (DOMAIN d) \ {k} |-> d[x]]

\* ------------------------------------------------------------- Tree queries
get_parent(t, node) ==
  IF node \in DOMAIN t.parents THEN t.parents[node] ELSE None

get_next_sibling(t, node) ==
  LET parent == get_parent(t, node)
  IN  IF parent \notin DOMAIN t.children
      THEN [exc |-> "KeyError", val |-> None]
      ELSE LET siblings == t.children[parent]
               i == ListIndex(siblings, node)
           IN  IF i = 0
               THEN [exc |-> "ValueError", val |-> None]
               ELSE IF i + 1 > Len(siblings)
               THEN [exc |-> "IndexError", val |-> None]
               ELSE [exc |-> "none", val |-> siblings[i + 1]]

\* siblings[index] with Python's negative indexing and no test of index
get_previous_sibling_wrap(t, node) ==
  LET parent == get_parent(t, node)
  IN  IF parent \notin DOMAIN t.children
      THEN [exc |-> "KeyError", val |-> None]
      ELSE LET siblings == t.children[parent]
               i == ListIndex(siblings, node)
           IN  IF i = 0
               THEN [exc |-> "ValueError", val |-> None]
               ELSE IF i = 1
               THEN [exc |-> "none", val |-> siblings[Len(siblings)]]
               ELSE [exc |-> "none", val |-> siblings[i - 1]]

\* index = siblings.index(node) - 1; if index < 0: raise IndexError
get_previous_sibling(t, node) ==
  LET parent == get_parent(t, node)
  IN  IF parent \notin DOMAIN t.children
      THEN [exc |-> "KeyError", val |-> None]
      ELSE LET siblings == t.children[parent]
               i == ListIndex(siblings, node)
           IN  IF i = 0
               THEN [exc |-> "ValueError", val |-> None]
               ELSE IF i - 1 < 1
               THEN [exc |-> "IndexError", val |-> None]
               ELSE [exc |-> "none", val |-> siblings[i - 1]]

RECURSIVE all_children_of(_, _, _)
all_children_of(t, cs, depth) ==
  IF cs = <<>> \/ depth = 0
  THEN <<>>
  ELSE LET c == Head(cs)
           sub == IF c \in DOMAIN t.children
                  THEN all_children_of(t, t.children[c], depth - 1)
                  ELSE <<>>
       IN  <<c>> \o sub \o all_children_of(t, Tail(cs), depth)

\* list(tree.get_all_children(node)): the descendants of node, depth first
\* (none for a node without an entry in the children map)
get_all_children(t, node) ==
  IF node \in DOMAIN t.children
  THEN all_children_of(t, t.children[node], RecursionLimit)
  ELSE <<>>

RECURSIVE ancestors_from(_, _, _)
ancestors_from(t, parent, depth) ==
  IF parent = None \/ depth = 0
  THEN <<>>
  ELSE <<parent>> \o ancestors_from(t, get_parent(t, parent), depth - 1)

\* list(tree.get_ancestors(node)): the parents of node, nearest first
get_ancestors(t, node) ==
  ancestors_from(t, get_parent(t, node), RecursionLimit)

\* ---------------------------------------------------------- Tree mutators
Raise(t, e) ==
  [nodes |-> t.nodes, children |-> t.children, parents |-> t.parents, exc |-> e]

\* _add_to_nodes that appends when parent has no younger sibling, without
\* looking at the ancestors
add_to_nodes_noclimb(t, node, parent, depth) ==
  IF parent # None
  THEN LET r == get_next_sibling(t, parent)
       IN  IF r.exc = "IndexError"
           THEN [nodes |-> Append(t.nodes, node), exc |-> "none"]
           ELSE IF r.exc # "none"
           THEN [nodes |-> t.nodes, exc |-> r.exc]
           ELSE LET i == ListIndex(t.nodes, r.val)
                IN  IF i = 0
                    THEN [nodes |-> t.nodes, exc |-> "ValueError"]
                    ELSE [nodes |-> ListInsert(t.nodes, i, node), exc |-> "none"]
  ELSE [nodes |-> Append(t.nodes, node), exc |-> "none"]

RECURSIVE add_to_nodes_rec(_, _, _, _)
add_to_nodes_rec(t, node, parent, depth) ==
  IF parent # None
  THEN LET r == get_next_sibling(t, parent)
       IN  IF r.exc = "IndexError"
           THEN IF depth = 0
                THEN [nodes |-> t.nodes, exc |-> "RuntimeError"]
                ELSE add_to_nodes_rec(t, node, get_parent(t, parent), depth - 1)
           ELSE IF r.exc # "none"
           THEN [nodes |-> t.nodes, exc |-> r.exc]
           ELSE LET i == ListIndex(t.nodes, r.val)
                IN  IF i = 0
                    THEN [nodes |-> t.nodes, exc |-> "ValueError"]
                    ELSE [nodes |-> ListInsert(t.nodes, i, node), exc |-> "none"]
  ELSE [nodes |-> Append(t.nodes, node), exc |-> "none"]

add_to_nodes(t, node, parent) ==
  add_to_nodes_rec(t, node, parent, RecursionLimit)

\* add that looks the siblings up with setdefault(parent, [])
add_setdefault(t, node, parent) ==
  IF node \in DOMAIN t.children /\ t.children[node] # <<>>
  THEN Raise(t, "AssertionError")
  ELSE LET t0 == IF parent \in DOMAIN t.children
                 THEN t
                 ELSE [t EXCEPT !.children = DictSet(@, parent, <<>>)]
           r == add_to_nodes(t0, node, parent)
       IN  IF r.exc # "none"
           THEN Raise(t0, r.exc)
           ELSE LET ch == [t0.children EXCEPT ![parent] = Append(@, node)]
                IN  [nodes    |-> r.nodes,
                     children |-> DictSet(ch, node, <<>>),
                     parents  |-> IF parent # None
                                  THEN DictSet(t0.parents, node, parent)
                                  ELSE t0.parents,
                     exc      |-> "none"]

add(t, node, parent) ==
  IF node \in DOMAIN t.children /\ t.children[node] # <<>>
  THEN Raise(t, "AssertionError")
  ELSE IF parent \notin DOMAIN t.children
  THEN Raise(t, "KeyError")
  ELSE LET r == add_to_nodes(t, node, parent)
       IN  IF r.exc # "none"
           THEN Raise(t, r.exc)
           ELSE LET ch == [t.children EXCEPT ![parent] = Append(@, node)]
                IN  [nodes    |-> r.nodes,
                     children |-> DictSet(ch, node, <<>>),
                     parents  |-> IF parent # None
                                  THEN DictSet(t.parents, node, parent)
                                  ELSE t.parents,
                     exc      |-> "none"]

RECURSIVE remove_rec(_, _, _), remove_each(_, _, _)

\* a loop over the children that ends after the first child
remove_each_first(t, cs, depth) ==
  IF cs = <<>>
  THEN Raise(t, "none")
  ELSE remove_rec(t, Head(cs), depth)

remove_each(t, cs, depth) ==
  IF cs = <<>>
  THEN Raise(t, "none")
  ELSE LET t1 == remove_rec(t, Head(cs), depth)
       IN  IF t1.exc # "none" THEN t1 ELSE remove_each(t1, Tail(cs), depth)

remove_rec(t, node, depth) ==
  IF node \notin DOMAIN t.children
  THEN Raise(t, "KeyError")
  ELSE IF depth = 0
  THEN Raise(t, "RuntimeError")
  ELSE LET t1 == remove_each(t, t.children[node], depth - 1)
       IN  IF t1.exc # "none"
           THEN t1
           ELSE LET parent == get_parent(t1, node)
                IN  IF parent \notin DOMAIN t1.children
                    THEN Raise(t1, "KeyError")
                    ELSE IF node \notin Elems(t1.children[parent])
                    THEN Raise(t1, "ValueError")
                    ELSE LET ch == DictDel([t1.children EXCEPT
                                              ![parent] = ListRemove(@, node)],
                                           node)
                         IN  IF node \notin Elems(t1.nodes)
                             THEN [nodes |-> t1.nodes, children |-> ch,
                                   parents |-> t1.parents, exc |-> "ValueError"]
                             ELSE [nodes    |-> ListRemove(t1.nodes, node),
                                   children |-> ch,
                                   parents  |-> DictDel(t1.parents, node),
                                   exc      |-> "none"]

remove(t, node) ==
  remove_rec(t, node, RecursionLimit)

RECURSIVE reparent_nodes_rec(_, _, _, _), reparent_each(_, _, _, _)
reparent_each(t, cs, node, depth) ==
  IF cs = <<>>
  THEN Raise(t, "none")
  ELSE LET t1 == reparent_nodes_rec(t, Head(cs), node, depth)
       IN  IF t1.exc # "none" THEN t1 ELSE reparent_each(t1, Tail(cs), node, depth)

reparent_nodes_rec(t, node, parent, depth) ==
  IF depth = 0
  THEN Raise(t, "RuntimeError")
  ELSE IF node \notin Elems(t.nodes)
  THEN Raise(t, "ValueError")
  ELSE LET t1 == [t EXCEPT !.nodes = ListRemove(@, node)]
           r  == add_to_nodes(t1, node, parent)
       IN  IF r.exc # "none"
           THEN Raise(t1, r.exc)
           ELSE LET t2 == [t1 EXCEPT !.nodes = r.nodes]
                IN  IF node \notin DOMAIN t2.children
                    THEN Raise(t2, "KeyError")
                    ELSE reparent_each(t2, t2.children[node], node, depth - 1)

reparent_nodes(t, node, parent) ==
  reparent_nodes_rec(t, node, parent, RecursionLimit)

\* reparent without "self._parents[node] = parent"
reparent_noparent(t, node, parent) ==
  LET old == get_parent(t, node)
  IN  IF old \notin DOMAIN t.children
      THEN Raise(t, "KeyError")
      ELSE IF node \notin Elems(t.children[old])
      THEN Raise(t, "ValueError")
      ELSE LET t1 == [t EXCEPT !.children[old] = ListRemove(@, node)]
           IN  IF parent \notin DOMAIN t1.children
               THEN Raise(t1, "KeyError")
               ELSE LET t2 == [t1 EXCEPT !.children[parent] = Append(@, node)]
                    IN  reparent_nodes(t2, node, parent)

\* reparent without "self.get_siblings(node).remove(node)"
reparent_keep(t, node, parent) ==
  IF parent \notin DOMAIN t.children
  THEN Raise(t, "KeyError")
  ELSE LET t2 == [t EXCEPT !.children[parent] = Append(@, node),
                           !.parents = DictSet(@, node, parent)]
       IN  reparent_nodes(t2, node, parent)

reparent(t, node, parent) ==
  LET old == get_parent(t, node)
  IN  IF old \notin DOMAIN t.children
      THEN Raise(t, "KeyError")
      ELSE IF node \notin Elems(t.children[old])
      THEN Raise(t, "ValueError")
      ELSE LET t1 == [t EXCEPT !.children[old] = ListRemove(@, node)]
           IN  IF parent \notin DOMAIN t1.children
               THEN Raise(t1, "KeyError")
               ELSE LET t2 == [t1 EXCEPT !.children[parent] = Append(@, node),
                                         !.parents = DictSet(@, node, parent)]
                    IN  reparent_nodes(t2, node, parent)

\* ------------------------------------------------- recording and replay
NoMark == [nodes |-> <<>>, children |-> <<>>, parents |-> <<>>]

\* no get_ancestors generator is being enumerated
NoWalk == [on |-> FALSE, parent |-> None]

\* undo_handler(event)
undo_handler(list, event) == Append(list, event)

\* an event goes to every subscriber; the only subscriber is undo_handler
dispatch(list, subs, event) ==
  IF subs # {} THEN undo_handler(list, event) ELSE list

\* the event of a call of the reversible pair (add, remove): a remove carries
\* the parent the node has when the call is made
bind(t, op, node, parent) ==
  [op |-> op, node |-> node,
   parent |-> IF op = "remove" THEN get_parent(t, node) ELSE parent]

\* the operation op of Tree carried out on t
method(t, op, node, parent) ==
  CASE op = "add" -> add(t, node, parent)
    [] op = "remove" -> remove(t, node)
    [] OTHER -> reparent(t, node, parent)

\* an observed, dispatching call of op on the tree of m
observed_call(m, subs, op, node, parent) ==
  LET t == [nodes |-> m.nodes, children |-> m.children, parents |-> m.parents]
      r == method(t, op, node, parent)
  IN  [nodes |-> r.nodes, children |-> r.children, parents |-> r.parents,
       undo_list |-> dispatch(m.undo_list, subs, bind(t, op, node, parent)),
       exc |-> r.exc]

\* the methods of Tree decorated with @observed
observed == {"add", "remove", "reparent"}

\* no disable_dispatching at all
dispatching_disabled_none == {}

\* disable_dispatching(add); disable_dispatching(remove)
dispatching_disabled == {"add", "remove"}

\* a call made straight on the Tree of m: an event is dispatched when the
\* method is observed and its dispatching has not been disabled
tree_call(m, subs, op, node, parent) ==
  LET t == [nodes |-> m.nodes, children |-> m.children, parents |-> m.parents]
      r == method(t, op, node, parent)
  IN  [nodes |-> r.nodes, children |-> r.children, parents |-> r.parents,
       undo_list |-> IF op \in observed /\ op \notin dispatching_disabled
                     THEN dispatch(m.undo_list, subs, bind(t, op, node, parent))
                     ELSE m.undo_list,
       exc |-> r.exc]

\* a reversible pair that also binds reparent to itself
reverse_of_reparent ==
  ("add" :> "remove") @@ ("remove" :> "add") @@ ("reparent" :> "reparent")

\* reversible_pair(add, remove, ...): the only pair declared
reverse_of == ("add" :> "remove") @@ ("remove" :> "add")

\* saveapply(*event): the call that reverses the recorded one; an event of
\* an operation without a declared reverse raises and calls nothing
saveapply(m, subs, event) ==
  IF event.op \notin DOMAIN reverse_of
  THEN [m EXCEPT !.exc = "UnpairedOperationError"]
  ELSE observed_call(m, subs, reverse_of[event.op], event.node, event.parent)

Reverse(s) == [i \in 1..Len(s) |-> s[Len(s) + 1 - i]]

\* a play back without apply_me.reverse()
apply_me_forward(list) == list

\* apply_me = list(undo_list); apply_me.reverse()
apply_me(list) == Reverse(list)

\* for event in apply_me: saveapply(*event), left by the first exception
RECURSIVE play_back(_, _, _, _)
\* a loop left after its first event
play_back_first(m, subs, events, done) ==
  IF events = <<>>
  THEN [m |-> m, replayed |-> done]
  ELSE [m |-> saveapply(m, subs, Head(events)), replayed |-> Append(done, Head(events))]

play_back(m, subs, events, done) ==
  IF events = <<>>
  THEN [m |-> m, replayed |-> done]
  ELSE LET m1 == saveapply(m, subs, Head(events))
       IN  IF m1.exc # "none"
           THEN [m |-> m1, replayed |-> Append(done, Head(events))]
           ELSE play_back(m1, subs, Tail(events), Append(done, Head(events)))

\* --------------------------------------------------------------- TreeSorter
\* no sort call was made
NoArgs == [items |-> <<>>, reverse |-> FALSE]

\* a reindex that leaves a key alone once a node has one
reindex_keep(t, k) ==
  LET ns == t.nodes
      Last(n) == CHOOSE i \in 1..Len(ns) :
                   ns[i] = n /\ \A j \in (i + 1)..Len(ns) : ns[j] # n
  IN  [n \in (DOMAIN k) \cup Elems(ns) |->
         IF n \in DOMAIN k THEN k[n] ELSE Last(n) - 1]

\* map(setattr, nodes, ['_tree_sorter_key'] * l, xrange(l)): every node of
\* the order gets its index as key, a later index replacing an earlier one;
\* the keys of other nodes stay
reindex(t, k) ==
  LET ns == t.nodes
      Last(n) == CHOOSE i \in 1..Len(ns) :
                   ns[i] = n /\ \A j \in (i + 1)..Len(ns) : ns[j] # n
  IN  [n \in (DOMAIN k) \cup Elems(ns) |->
         IF n \in Elems(ns) THEN Last(n) - 1 ELSE k[n]]

\* x put behind the last element of the sorted list s whose key is not greater
insert_by(s, x, k) ==
  LET small == {i \in 1..Len(s) : k[s[i]] <= k[x]}
      at == IF small = {} THEN 0 ELSE CHOOSE i \in small : \A j \in small : j <= i
  IN  SubSeq(s, 1, at) \o <<x>> \o SubSeq(s, at + 1, Len(s))

\* sorted(items, key=...): a stable sort by ascending key
RECURSIVE sorted_by(_, _)
sorted_by(items, k) ==
  IF items = <<>> THEN <<>>
  ELSE insert_by(sorted_by(SubSeq(items, 1, Len(items) - 1), k),
                 items[Len(items)], k)

\* a sort that takes no notice of reverse
sort_forward(items, k, reverse) ==
  IF \E i \in 1..Len(items) : items[i] \notin DOMAIN k
  THEN [exc |-> "AttributeError", val |-> <<>>]
  ELSE [exc |-> "none", val |-> sorted_by(items, k)]

\* sorted(items, key=operator.attrgetter('_tree_sorter_key'), reverse=reverse):
\* an item without the attribute raises; reverse sorts the reversed list and
\* reverses the result, which keeps the sort stable
sort(items, k, reverse) ==
  IF \E i \in 1..Len(items) : items[i] \notin DOMAIN k
  THEN [exc |-> "AttributeError", val |-> <<>>]
  ELSE [exc |-> "none",
        val |-> IF reverse THEN Reverse(sorted_by(Reverse(items), k))
                ELSE sorted_by(items, k)]

\* ------------------------------------------------------------ the machine
Present == Elems(nodes)

Init ==
  /\ nodes = <<>>
  /\ children = (None :> <<>>)
  /\ parents = <<>>
  /\ call = [op |-> "init", node |-> None, parent |-> None, exc |-> "none"]
  /\ subscribers = {}
  /\ undo_list = <<>>
  /\ replayed = <<>>
  /\ mark = NoMark
  /\ before = NoMark
  /\ ret = <<>>
  /\ keys = <<>>
  /\ fresh = FALSE
  /\ args = NoArgs
  /\ walk = NoWalk

Result(r, op, node, parent) ==
  /\ nodes' = r.nodes
  /\ children' = r.children
  /\ parents' = r.parents
  /\ call' = [op |-> op, node |-> node, parent |-> parent, exc |-> r.exc]
  /\ ret' = <<>>
  /\ fresh' = FALSE
  /\ args' = NoArgs
  /\ UNCHANGED <<keys, walk>>

\* a call made straight on the tree
Apply(r, op, node, parent) ==
  /\ Result(r, op, node, parent)
  /\ UNCHANGED undoVars

\* tree.add(node, parent) of an absent node under a present parent or the root
Add(node, parent) ==
  /\ node \notin Present
  /\ parent \in Present \cup {None}
  /\ Apply(add(tree, node, parent), "add", node, parent)

\* tree.remove(node) of a present node
Remove(node) ==
  /\ node \in Present
  /\ Apply(remove(tree, node), "remove", node, None)

\* tree.reparent(node, parent) of a present node under a present node that is
\* neither node nor one of its descendants, or under the root
Reparent(node, parent) ==
  /\ node \in Present
  /\ parent \in Present \cup {None}
  /\ parent # node
  /\ parent \notin Elems(get_all_children(tree, node))
  /\ Apply(reparent(tree, node, parent), "reparent", node, parent)

Next ==
  \/ \E node \in Nodes, parent \in Nodes \cup {None} : Add(node, parent)
  \/ \E node \in Nodes : Remove(node)
  \/ \E node \in Nodes, parent \in Nodes \cup {None} : Reparent(node, parent)

Spec == Init /\ [][Next]_vars

\* The calls of Next, and add(node, parent) of a node that is present
\* already. A run is followed until the order holds a node twice.
Intact == Len(nodes) = Cardinality(Present)

AddPresent(node, parent) ==
  /\ Intact
  /\ node \in Present
  /\ parent \in Present \cup {None}
  /\ Apply(add(tree, node, parent), "add", node, parent)

AddAbsent(node, parent) ==
  /\ Intact
  /\ Add(node, parent)

RemovePresent(node) ==
  /\ Intact
  /\ Remove(node)

ReparentPresent(node, parent) ==
  /\ Intact
  /\ Reparent(node, parent)

NextDup ==
  \/ \E node \in Nodes, parent \in Nodes \cup {None} : AddPresent(node, parent)
  \/ \E node \in Nodes, parent \in Nodes \cup {None} : AddAbsent(node, parent)
  \/ \E node \in Nodes : RemovePresent(node)
  \/ \E node \in Nodes, parent \in Nodes \cup {None} : ReparentPresent(node, parent)

SpecDup == Init /\ [][NextDup]_vars

\* The calls of Next, and the calls that name a node the tree does not hold:
\* an add under an absent parent and a remove of an absent node.
AddUnknownParent(node, parent) ==
  /\ parent \notin Present \cup {None}
  /\ Apply(add(tree, node, parent), "add", node, parent)

RemoveUnknown(node) ==
  /\ node \notin Present
  /\ Apply(remove(tree, node), "remove", node, None)

NextErr ==
  \/ Next
  \/ \E node \in Nodes, parent \in Nodes : AddUnknownParent(node, parent)
  \/ \E node \in Nodes : RemoveUnknown(node)

SpecErr == Init /\ [][NextErr]_vars

\* The demo: the Record toggle, observed calls of add and remove, Play back.
\* A run is followed until the order holds a node twice.
StartRecording ==
  /\ Intact
  /\ subscribers = {}
  /\ undo_list' = <<>>
  /\ subscribers' = {"undo_handler"}
  /\ mark' = tree
  /\ replayed' = <<>>
  /\ call' = [op |-> "record", node |-> None, parent |-> None, exc |-> "none"]
  /\ before' = NoMark
  /\ UNCHANGED <<treeVars, queryVars>>

StopRecording ==
  /\ Intact
  /\ subscribers # {}
  /\ subscribers' = {}
  /\ replayed' = <<>>
  /\ call' = [op |-> "stop", node |-> None, parent |-> None, exc |-> "none"]
  /\ before' = NoMark
  /\ UNCHANGED <<nodes, children, parents, undo_list, mark, queryVars>>

Observed(op, node, parent) ==
  LET r == observed_call([nodes |-> nodes, children |-> children, parents |-> parents,
                          undo_list |-> undo_list, exc |-> "none"],
                         subscribers, op, node, parent)
  IN  /\ Intact
      /\ subscribers # {} => Len(undo_list) < MaxUndo
      /\ Result(r, op, node, parent)
      /\ undo_list' = r.undo_list
      /\ mark' = IF subscribers # {} THEN mark ELSE NoMark
      /\ replayed' = <<>>
      /\ before' = NoMark
      /\ UNCHANGED subscribers

ObservedAdd(node, parent) ==
  /\ node \notin Present
  /\ parent \in Present \cup {None}
  /\ Observed("add", node, parent)

ObservedRemove(node) ==
  /\ node \in Present
  /\ Observed("remove", node, None)

PlayBack ==
  LET r == play_back([nodes |-> nodes, children |-> children, parents |-> parents,
                      undo_list |-> <<>>, exc |-> "none"],
                     subscribers, apply_me(undo_list), <<>>)
  IN  /\ Intact
      /\ Result(r.m, "playback", None, None)
      /\ undo_list' = r.m.undo_list
      /\ replayed' = r.replayed
      /\ mark' = NoMark
      /\ before' = tree
      /\ UNCHANGED subscribers

NextUndo ==
  \/ StartRecording
  \/ StopRecording
  \/ \E node \in UndoNodes, parent \in UndoNodes \cup {None} : ObservedAdd(node, parent)
  \/ \E node \in UndoNodes : ObservedRemove(node)
  \/ PlayBack

SpecUndo == Init /\ [][NextUndo]_vars

\* Calls made straight on the Tree while the Record toggle is used: of the
\* three methods only reparent dispatches.
Direct(op, node, parent) ==
  LET r == tree_call([nodes |-> nodes, children |-> children, parents |-> parents,
                      undo_list |-> undo_list, exc |-> "none"],
                     subscribers, op, node, parent)
  IN  /\ Len(r.undo_list) <= MaxUndo
      /\ Result(r, op, node, parent)
      /\ undo_list' = r.undo_list
      /\ mark' = NoMark
      /\ replayed' = <<>>
      /\ before' = NoMark
      /\ UNCHANGED subscribers

DirectAdd(node, parent) ==
  /\ node \notin Present
  /\ parent \in Present \cup {None}
  /\ Direct("add", node, parent)

DirectRemove(node) ==
  /\ node \in Present
  /\ Direct("remove", node, None)

DirectReparent(node, parent) ==
  /\ node \in Present
  /\ parent \in Present \cup {None}
  /\ parent # node
  /\ parent \notin Elems(get_all_children(tree, node))
  /\ Direct("reparent", node, parent)

NextLog ==
  \/ StartRecording
  \/ StopRecording
  \/ \E node \in UndoNodes, parent \in UndoNodes \cup {None} : DirectAdd(node, parent)
  \/ \E node \in UndoNodes : DirectRemove(node)
  \/ \E node \in UndoNodes, parent \in UndoNodes \cup {None} : DirectReparent(node, parent)
  \/ PlayBack

SpecLog == Init /\ [][NextLog]_vars

\* A query of the tree: the forest is read, the result is returned.
Query(r, op, node) ==
  /\ call' = [op |-> op, node |-> node, parent |-> None, exc |-> r.exc]
  /\ ret' = IF r.exc = "none" THEN <<r.val>> ELSE <<>>
  /\ UNCHANGED <<treeVars, undoVars, sortVars, walk>>

GetNextSibling(node) ==
  /\ node \in Present
  /\ Query(get_next_sibling(tree, node), "get_next_sibling", node)

GetPreviousSibling(node) ==
  /\ node \in Present
  /\ Query(get_previous_sibling(tree, node), "get_previous_sibling", node)

NextQuery ==
  \/ \E node \in QueryNodes, parent \in QueryNodes \cup {None} : Add(node, parent)
  \/ \E node \in QueryNodes : Remove(node)
  \/ \E node \in QueryNodes, parent \in QueryNodes \cup {None} : Reparent(node, parent)
  \/ \E node \in QueryNodes : GetNextSibling(node)
  \/ \E node \in QueryNodes : GetPreviousSibling(node)

SpecQuery == Init /\ [][NextQuery]_vars

\* Calls that break the contract of reparent, and the enumeration of
\* get_ancestors taken one turn of its loop at a time. A caller waits for a
\* call or an enumeration to end before it makes the next call, and changes
\* the forest only while its three structures still describe one forest.
Sound ==
  /\ Intact
  /\ DOMAIN children = Present \cup {None}
  /\ DOMAIN parents \subseteq Present
  /\ Elems(get_all_children(tree, None)) = Present

ReparentCyclic(node, parent) ==
  /\ ~walk.on
  /\ Sound
  /\ node \in Present
  /\ parent = node \/ parent \in Elems(get_all_children(tree, node))
  /\ Apply(reparent(tree, node, parent), "reparent", node, parent)

ReparentUnknown(node, parent) ==
  /\ ~walk.on
  /\ Sound
  /\ node \notin Present \/ parent \notin Present \cup {None}
  /\ Apply(reparent(tree, node, parent), "reparent", node, parent)

MisuseAdd(node, parent) == ~walk.on /\ Sound /\ Add(node, parent)

MisuseRemove(node) == ~walk.on /\ Sound /\ Remove(node)

MisuseReparent(node, parent) == ~walk.on /\ Sound /\ Reparent(node, parent)

\* list(tree.get_ancestors(node)) begins: parent = self.get_parent(node)
GetAncestors(node) ==
  /\ ~walk.on
  /\ walk' = [on |-> TRUE, parent |-> get_parent(tree, node)]
  /\ call' = [op |-> "get_ancestors", node |-> node, parent |-> None, exc |-> "none"]
  /\ ret' = <<>>
  /\ UNCHANGED <<treeVars, undoVars, sortVars>>

\* one test of "while parent:", with the yield and the step to the next
\* parent when the test succeeds; the generator is exhausted when it fails
GetAncestorsNext ==
  /\ walk.on
  /\ walk' = IF walk.parent = None THEN NoWalk
             ELSE [on |-> TRUE, parent |-> get_parent(tree, walk.parent)]
  /\ UNCHANGED <<treeVars, undoVars, call, ret, sortVars>>

NextMisuse ==
  \/ \E node \in QueryNodes, parent \in QueryNodes \cup {None} : MisuseAdd(node, parent)
  \/ \E node \in QueryNodes : MisuseRemove(node)
  \/ \E node \in QueryNodes, parent \in QueryNodes \cup {None} : MisuseReparent(node, parent)
  \/ \E node \in QueryNodes, parent \in QueryNodes : ReparentCyclic(node, parent)
  \/ \E node \in QueryNodes, parent \in QueryNodes \cup {None} : ReparentUnknown(node, parent)
  \/ \E node \in QueryNodes : GetAncestors(node)
  \/ GetAncestorsNext

SpecMisuse == Init /\ [][NextMisuse]_vars

\* the loop of a generator being enumerated keeps running
SpecTerm == SpecMisuse /\ WF_vars(GetAncestorsNext)

\* A TreeSorter bound to the tree: reindex() and sort(items, reverse) between
\* the calls that change the forest. The items are distinct nodes.
ItemSeqs ==
  {items \in UNION {[1..n -> SortNodes] : n \in 0..MaxSortNodes} :
     \A i, j \in 1..Len(items) : i # j => items[i] # items[j]}

Reindex ==
  /\ keys' = reindex(tree, keys)
  /\ fresh' = TRUE
  /\ args' = NoArgs
  /\ ret' = <<>>
  /\ call' = [op |-> "reindex", node |-> None, parent |-> None, exc |-> "none"]
  /\ UNCHANGED <<treeVars, undoVars, walk>>

Sort(items, reverse) ==
  LET r == sort(items, keys, reverse)
  IN  /\ args' = [items |-> items, reverse |-> reverse]
      /\ ret' = r.val
      /\ call' = [op |-> "sort", node |-> None, parent |-> None, exc |-> r.exc]
      /\ UNCHANGED <<treeVars, undoVars, keys, fresh, walk>>

NextSort ==
  \/ \E node \in SortNodes, parent \in SortNodes \cup {None} : Add(node, parent)
  \/ \E node \in SortNodes : Remove(node)
  \/ \E node \in SortNodes, parent \in SortNodes \cup {None} : Reparent(node, parent)
  \/ Reindex
  \/ \E items \in ItemSeqs, reverse \in BOOLEAN : Sort(items, reverse)

SpecSort == Init /\ [][NextSort]_vars

\* ------------------------------------------------------------- vocabulary
Count(s, x) == Cardinality({i \in 1..Len(s) : s[i] = x})

Without(s, D) ==
  LET Keep(x) == x \notin D IN SelectSeq(s, Keep)

Restrict(d, D) == [x \in (DOMAIN d) \ D |-> d[x]]

\* node of t together with its descendants
Subtree(t, node) == {node} \cup Elems(get_all_children(t, node))

\* the order of t is a pre-order of its children map: the subtree of every
\* node is the block right behind it, and siblings keep their list order
IsPreOrder(t) ==
  /\ \A n \in Elems(t.nodes) :
       LET i == ListIndex(t.nodes, n)
           k == Len(get_all_children(t, n))
       IN  /\ i + k <= Len(t.nodes)
           /\ {t.nodes[j] : j \in (i + 1)..(i + k)} = Elems(get_all_children(t, n))
  /\ \A p \in DOMAIN t.children :
       \A a, b \in 1..Len(t.children[p]) :
         a < b => ListIndex(t.nodes, t.children[p][a]) < ListIndex(t.nodes, t.children[p][b])

\* the step just taken is a completed call of op
Called(op) == call'.op = op /\ call'.exc = "none"

\* --------------------------------------------------------------- claims

\* C1: after every call of a precondition-respecting sequence of add, remove
\* and reparent, the children map has len(order) + 1 entries, and every
\* present node occurs exactly once in order and in exactly one children list.
C1_Counts ==
  /\ Cardinality(DOMAIN children) = Len(nodes) + 1
  /\ \A n \in Present :
       /\ Count(nodes, n) = 1
       /\ Cardinality({p \in DOMAIN children : n \in Elems(children[p])}) = 1
       /\ \A p \in DOMAIN children : Count(children[p], n) <= 1

C1_Witness ==
  /\ call.op = "reparent"
  /\ Len(nodes) = 3
  /\ Len(get_all_children(tree, call.node)) >= 1

\* C2: after every call of a precondition-respecting sequence of add, remove
\* and reparent, order is a pre-order of the forest: every subtree is one
\* contiguous block right behind its root, siblings in children-list order.
C2_PreOrder == IsPreOrder(tree)

\* C3: the parent and children maps agree: every child of a present node n
\* has n as its parent, and a present node is in the root children list
\* exactly when its parent is None.
C3_Agree ==
  /\ \A n \in Present : \A c \in Elems(children[n]) : get_parent(tree, c) = n
  /\ \A c \in Present : (c \in Elems(children[None])) <=> (get_parent(tree, c) = None)

C3_Witness ==
  /\ call.op = "reparent"
  /\ call.parent # None
  /\ Len(children[call.node]) >= 1
  /\ Len(children[None]) >= 1

\* C7: remove(node) of a present node deletes exactly node and its
\* descendants from order, children and parent; every other node keeps its
\* parent entry, its children list (minus node) and its relative position in
\* order; and when no node is left the forest equals the initial state.
RemoveEffect ==
  LET n == call'.node
      D == Subtree(tree, n)
  IN  /\ nodes' = Without(nodes, D)
      /\ DOMAIN children' = (DOMAIN children) \ D
      /\ \A m \in DOMAIN children' : children'[m] = Without(children[m], {n})
      /\ parents' = Restrict(parents, D)

C7_RemoveFrame ==
  /\ [][Called("remove") => RemoveEffect]_vars
  /\ [](nodes = <<>> => (children = (None :> <<>>) /\ parents = <<>>))

C7_Witness ==
  /\ call.op = "remove"
  /\ call.exc = "none"
  /\ Len(nodes) >= 2
  /\ \E m \in Present : children[m] # <<>>

\* C8: add(node, parent) on a forest whose order is a pre-order appends node
\* to children[parent] and puts it into order right behind the last
\* descendant of parent, that is right before the next younger sibling of
\* parent or of its nearest ancestor that has one, and at the end of order
\* when there is none or parent is the root; the other nodes keep their order.
AddPosition(t, parent) ==
  IF parent = None
  THEN Len(t.nodes) + 1
  ELSE ListIndex(t.nodes, parent) + Len(get_all_children(t, parent)) + 1

NextUncle(t, parent) ==
  LET chain == IF parent = None THEN <<>> ELSE <<parent>> \o get_ancestors(t, parent)
      having == {i \in 1..Len(chain) : get_next_sibling(t, chain[i]).exc = "none"}
  IN  IF having = {}
      THEN None
      ELSE get_next_sibling(t, chain[CHOOSE i \in having : \A j \in having : i <= j]).val

AddEffect ==
  LET n == call'.node
      p == call'.parent
      u == NextUncle(tree, p)
  IN  /\ children'[p] = Append(children[p], n)
      /\ nodes' = ListInsert(nodes, AddPosition(tree, p), n)
      /\ Without(nodes', {n}) = nodes
      /\ IF u = None
         THEN nodes'[Len(nodes')] = n
         ELSE ListIndex(nodes', n) < Len(nodes') /\ nodes'[ListIndex(nodes', n) + 1] = u

C8_AddPlacement ==
  [][(Called("add") /\ IsPreOrder(tree)) => AddEffect]_vars

C8_Witness ==
  /\ call.op = "add"
  /\ call.exc = "none"
  /\ call.parent # None
  /\ get_next_sibling(tree, call.parent).exc = "IndexError"
  /\ nodes[Len(nodes)] # call.node
  /\ IsPreOrder(tree)

\* C9 as stated: after reparent(node, new_parent), get_parent(node) is
\* new_parent, node is the last child of new_parent, node no longer occurs in
\* its former parent's children list, and the parent and children list of
\* every other node are unchanged; only positions in order change.
ReparentFrame ==
  LET n == call'.node
      p == call'.parent
  IN  /\ get_parent(tree', n) = p
      /\ children'[p] # <<>>
      /\ children'[p][Len(children'[p])] = n
      /\ Restrict(parents', {n}) = Restrict(parents, {n})
      /\ DOMAIN children' = DOMAIN children
      /\ \A m \in DOMAIN children :
           children'[m] = IF m = p
                          THEN Append(Without(children[m], {n}), n)
                          ELSE Without(children[m], {n})
      /\ Len(nodes') = Len(nodes)
      /\ Elems(nodes') = Elems(nodes)

C9_Original ==
  [][Called("reparent") =>
       (ReparentFrame /\ call'.node \notin Elems(children'[get_parent(tree, call'.node)]))]_vars

\* C9 as amended: the same, but node leaves its former parent's children
\* list only when new_parent is another node than the former parent; under
\* the same parent it moves to the end of that list.
C9_ReparentFrame ==
  [][Called("reparent") =>
       (/\ ReparentFrame
        /\ get_parent(tree, call'.node) # call'.parent
             => call'.node \notin Elems(children'[get_parent(tree, call'.node)]))]_vars

C9_Witness ==
  /\ call.op = "reparent"
  /\ call.exc = "none"
  /\ call.parent # None
  /\ children[call.node] # <<>>
  /\ Len(children[call.parent]) >= 2

\* C5: add(node, parent) fails whenever node is already present, leaf or
\* not, and the failed call leaves order, children and parent unchanged.
C5_DuplicateFails ==
  [][(call'.op = "add" /\ call'.node \in Present)
       => (call'.exc # "none" /\ UNCHANGED treeVars)]_vars

\* C6: add(node, parent) with a parent that is not present fails, and
\* remove(node) of a node that is not present fails; both leave order,
\* children and parent unchanged.
C6_UnknownFails ==
  /\ [][(call'.op = "add" /\ call'.parent \notin Present \cup {None})
          => (call'.exc # "none" /\ UNCHANGED treeVars)]_vars
  /\ [][(call'.op = "remove" /\ call'.node \notin Present)
          => (call'.exc # "none" /\ UNCHANGED treeVars)]_vars

C6_Witness ==
  /\ call.exc = "KeyError"
  /\ Len(nodes) >= 2
  /\ \/ call.op = "add" /\ call.parent \notin Present \cup {None}
     \/ call.op = "remove" /\ call.node \notin Present

\* C4: for any sequence of add / remove calls recorded while a subscriber is
\* active, replaying the recorded events in reverse order restores order,
\* children and parent to their values before the sequence.
C4_RoundTrip ==
  [][(call'.op = "playback" /\ mark # NoMark) => tree' = mark]_vars

\* C10 as stated: events reach the undo list in the order of the recorded
\* calls, and a play back replays each event of the list exactly once, in the
\* reverse of that order.
RecordedInCallOrder ==
  (call'.op \in {"add", "remove"} /\ subscribers # {})
    => undo_list' = Append(undo_list, bind(tree, call'.op, call'.node, call'.parent))

IsPrefix(s, u) == Len(s) <= Len(u) /\ s = SubSeq(u, 1, Len(s))

C10_Original ==
  /\ [][RecordedInCallOrder]_vars
  /\ [][call'.op = "playback" => replayed' = Reverse(undo_list)]_vars

\* C10 as amended: events reach the undo list in the order of the recorded
\* calls, and a play back replays the events of the list in the reverse of
\* that order, each at most once, up to and including the first event whose
\* replay raises; when no replay raises, each event is replayed exactly once.
C10_ReplayOrder ==
  /\ [][RecordedInCallOrder]_vars
  /\ [][call'.op = "playback" =>
          /\ IsPrefix(replayed', Reverse(undo_list))
          /\ call'.exc = "none" => replayed' = Reverse(undo_list)
          /\ call'.exc # "none" => replayed' # <<>>]_vars

C10_Witness ==
  /\ call.op = "playback"
  /\ call.exc = "none"
  /\ Len(replayed) = 2
  /\ replayed[1] # replayed[2]

\* C11: a call of a Tree method delivers an event exactly when the method is
\* observed, its dispatching is not disabled and a subscriber is registered:
\* with a subscriber, reparent is recorded and direct calls of add and remove
\* are not; without a subscriber no call changes the recorded list.
C11_Dispatch ==
  [][call'.op \in {"add", "remove", "reparent"} =>
       undo_list' = IF call'.op = "reparent" /\ subscribers # {}
                    THEN Append(undo_list,
                                [op |-> "reparent", node |-> call'.node,
                                 parent |-> call'.parent])
                    ELSE undo_list]_vars

C11_Witness ==
  /\ call.op = "reparent"
  /\ subscribers # {}
  /\ Len(undo_list) = 2
  /\ Len(nodes) = 2

C16_ParentEntries ==
  DOMAIN parents = {n \in Present : n \notin Elems(children[None])}

\* the list of siblings node is in, and its place there
SiblingsOf(node) ==
  children[IF node \in DOMAIN parents THEN parents[node] ELSE None]

PlaceOf(node) ==
  CHOOSE i \in 1..Len(SiblingsOf(node)) : SiblingsOf(node)[i] = node

\* C14: get_next_sibling(n) returns the element directly after n among the
\* children of n's parent and fails when n is the last one;
\* get_previous_sibling(n) returns the element directly before n and fails
\* when n is the first one, never wrapping around; the forest is unchanged.
C14_Siblings ==
  [][(call'.op \in {"get_next_sibling", "get_previous_sibling"}) =>
       LET n == call'.node
           i == IF call'.op = "get_next_sibling" THEN PlaceOf(n) + 1
                ELSE PlaceOf(n) - 1
       IN  /\ UNCHANGED treeVars
           /\ IF i \in 1..Len(SiblingsOf(n))
              THEN call'.exc = "none" /\ ret' = <<SiblingsOf(n)[i]>>
              ELSE call'.exc = "IndexError" /\ ret' = <<>>]_vars

C14_Witness ==
  /\ call.op = "get_previous_sibling"
  /\ call.exc = "IndexError"
  /\ Len(children[None]) = 3
  /\ children[None][1] = call.node

\* the forest without any node
EmptyForest == [nodes |-> <<>>, children |-> (None :> <<>>), parents |-> <<>>]

\* add(A) and then remove(A) were recorded, starting from the empty forest
AddRemoveRecorded ==
  /\ mark = EmptyForest
  /\ Len(undo_list) = 2
  /\ undo_list[1].op = "add"
  /\ undo_list[2] = [op |-> "remove", node |-> undo_list[1].node, parent |-> None]

\* C12 as stated: after add(A) and remove(A) were recorded from the empty
\* forest, replaying both events in reverse order leaves A present as a
\* root-level node.
C12_Original ==
  [][(call'.op = "playback" /\ AddRemoveRecorded)
       => (nodes' = <<undo_list[1].node>> /\ children'[None] = nodes')]_vars

\* C12: after add(A) and remove(A) were recorded from the empty forest,
\* replaying both events in reverse order first adds A back as a root-level
\* node and then removes it: no replay raises and the forest is empty again.
C12_ReplayBoth ==
  [][(call'.op = "playback" /\ AddRemoveRecorded)
       => (/\ call'.exc = "none"
           /\ replayed' = <<undo_list[2], undo_list[1]>>
           /\ tree' = EmptyForest)]_vars

C12_Witness ==
  /\ call.op = "playback"
  /\ call.exc = "none"
  /\ before = EmptyForest
  /\ Len(replayed) = 2
  /\ replayed[1].op = "remove"
  /\ replayed[2].op = "add"
  /\ replayed[1].node = replayed[2].node
  /\ nodes = <<>>

\* the events list are those of the calls that reverse the events done,
\* one for one and in the same order
GeneratedBy(list, done) ==
  /\ Len(list) = Len(done)
  /\ \A i \in 1..Len(done) :
       /\ list[i].op = reverse_of[done[i].op]
       /\ list[i].node = done[i].node

\* C18: when a play back ends, the undo list holds exactly the events that
\* its replays generated, in replay order (none if no subscriber is
\* registered); with a subscriber registered, a second play back directly
\* after the first brings the forest back to the state it had before the
\* first.
C18_PassThenRedo ==
  [][call'.op = "playback" =>
       /\ IF subscribers = {} THEN undo_list' = <<>>
          ELSE GeneratedBy(undo_list', replayed')
       /\ (call.op = "playback" /\ subscribers # {}) => tree' = before]_vars

\* C15: in every state reached through add, remove and reparent calls no node
\* is its own ancestor.
C15_Acyclic ==
  \A n \in Nodes : n \notin Elems(get_ancestors(tree, n))

\* C20: a reparent(node, new_parent) that fails because node or new_parent is
\* not in the forest leaves order, children and parent as they were.
C20_FailedReparent ==
  [][(/\ call'.op = "reparent"
      /\ call'.node \notin Present \/ call'.parent \notin Present \cup {None})
       => (call'.exc # "none" /\ UNCHANGED treeVars)]_vars

\* C17: no call of add, remove or reparent runs away in its recursion (the
\* walk of _add_to_nodes over the ancestors reaches the root), and every
\* enumeration of get_ancestors that was begun comes to its end.
C17_Completes ==
  /\ [](call.exc # "RuntimeError")
  /\ walk.on ~> ~walk.on

\* the elements of a are in b, in the same relative order
IsSubsequence(a, b) == a = Without(b, Elems(b) \ Elems(a))

\* C13: after reindex() with no change of the forest in between, sort(items)
\* of forest members returns exactly those items in the relative order they
\* have in the forest's order, reversed with reverse=True; the same sort
\* repeated gives the same result, and the sort of a subset is a subsequence
\* of the sort of any superset.
C13_SortFollowsOrder ==
  [][(call'.op = "sort" /\ fresh /\ Elems(args'.items) \subseteq Present) =>
       LET expect == Without(nodes, Present \ Elems(args'.items))
       IN  /\ call'.exc = "none"
           /\ ret' = IF args'.reverse THEN Reverse(expect) ELSE expect
           /\ (call.op = "sort" /\ args = args') => ret' = ret
           /\ \A sup \in ItemSeqs :
                (Elems(args'.items) \subseteq Elems(sup) /\ Elems(sup) \subseteq Present)
                  => IsSubsequence(ret', sort(sup, keys, args'.reverse).val)]_vars

C13_Witness ==
  /\ call.op = "sort"
  /\ call.exc = "none"
  /\ fresh
  /\ args.reverse
  /\ Len(args.items) = 2
  /\ Elems(args.items) = Present
  /\ args.items # ret
  /\ parents # <<>>

\* the items in the relative order they have in s, reversed on request
InOrderOf(s, items, reverse) ==
  LET expect == Without(s, Elems(s) \ Elems(items))
  IN  IF reverse THEN Reverse(expect) ELSE expect

\* the items, each once, in ascending order of key (descending on request);
\* a node that left the forest keeps its key, so keys can be equal
IsSortedBy(r, items, k, reverse) ==
  /\ Len(r) = Len(items)
  /\ Elems(r) = Elems(items)
  /\ \A i, j \in 1..Len(r) :
       i < j => IF reverse THEN k[r[i]] >= k[r[j]] ELSE k[r[i]] <= k[r[j]]

\* C21: the keys are a snapshot taken at reindex(): a reindex() makes the sort
\* of any forest members agree with the current order; an add, remove or
\* reparent call leaves every key as it was, so a sort of indexed items still
\* returns them by the keys of the reindex; and sort fails for an item of the
\* forest that was never indexed.
C21_Snapshot ==
  [][/\ call'.op = "reindex" =>
          \A items \in ItemSeqs, reverse \in BOOLEAN :
            Elems(items) \subseteq Present =>
              sort(items, keys', reverse) =
                [exc |-> "none", val |-> InOrderOf(nodes, items, reverse)]
     /\ call'.op \in {"add", "remove", "reparent"} => keys' = keys
     /\ call'.op = "sort" =>
          IF Elems(args'.items) \subseteq DOMAIN keys
          THEN /\ call'.exc = "none"
               /\ IsSortedBy(ret', args'.items, keys, args'.reverse)
          ELSE call'.exc = "AttributeError" /\ ret' = <<>>]_vars

\* a sort made after the forest changed: both members were indexed, and the
\* result is the order of the reindex, no longer the order of the forest
C21_Witness ==
  /\ call.op = "sort"
  /\ call.exc = "none"
  /\ ~fresh
  /\ ~args.reverse
  /\ Len(args.items) = 2
  /\ Elems(args.items) = Present
  /\ ret # nodes

====
